---- MODULE Spec2Model ----
(***************************************************************************)
(* The metric accumulators of aggregator/types.py: Gauge, BucketGauge,     *)
(* Count, MonotonicCount, Counter, Histogram, Set and Rate.  One           *)
(* accumulator is modelled: `self` holds its fields, each call of sample   *)
(* or flush is one step.  The owning registry serialises the calls, so a   *)
(* call is atomic.                                                         *)
(*                                                                         *)
(* Numbers that a flush hands to the formatter are kept as reduced         *)
(* fractions <<n, d>> with d > 0, so that value / interval and             *)
(* delta / float(interval) are true divisions; interval is a number of     *)
(* seconds given as a float, like the readings of time().                  *)
(***************************************************************************)
EXTENDS Integers, Sequences, FiniteSets, TLC

\* ---------------------------------------------------------------- bounds
\* at most MaxWindow sample calls between two flush calls
MaxWindow == 2
\* at most MaxReadings readings are given to one MonotonicCount
MaxReadings == 4

\* time() is read in ticks of 1/TicksPerSecond seconds
TicksPerSecond == 2

\* ------------------------------------------------------------ primitives
\* an optional field or argument is None or Some(x)
None == <<>>

Some(x) == <<x>>

Get(o) == o[1]

GAUGE == "gauge"
COUNTER == "counter"
RATE == "rate"
COUNT == "count"

Kinds ==
    {"Gauge", "BucketGauge", "Count", "MonotonicCount", "Counter",
     "Histogram", "Set", "Rate"}

Max(a, b) == IF a >= b THEN a ELSE b

Abs(a) == IF a < 0 THEN -a ELSE a

RECURSIVE GCD(_, _)
GCD(a, b) == IF b = 0 THEN a ELSE GCD(b, a % b)

\* n / d as a reduced fraction, d # 0
Div(n, d) ==
    LET g == GCD(Abs(n), Abs(d))
        s == IF d < 0 THEN -1 ELSE 1
    IN  <<(s * n) \div g, (s * d) \div g>>

\* the number v as a fraction
Num(v) == <<v, 1>>

\* int(x) of a fraction x: truncation toward zero
Trunc(x) == IF x[1] >= 0 THEN x[1] \div x[2] ELSE -((-x[1]) \div x[2])

\* int(ts) of a wall-clock reading in ticks: whole seconds
IntSeconds(ts) == ts \div TicksPerSecond

\* `a or b` on an optional number a: None and 0 are both falsy
Or(a, b) == IF a = None \/ a = Some(0) THEN b ELSE Get(a)

\* ---------------------------------------------------------------- inputs
\* the sampled values
Values == {0, 1, 2}

\* sample rates in (0, 1], as fractions
SampleRates == {<<1, 1>>, <<1, 2>>, <<3, 5>>}

\* An argument that a class's sample does not read is drawn from fewer
\* values.  sample_rate is read by Counter.sample and Histogram.sample.
SampleRatesOf(kind) ==
    IF kind \in {"Counter", "Histogram"} THEN SampleRates
    ELSE IF kind \in {"Gauge", "BucketGauge"} THEN {<<1, 1>>, <<1, 2>>}
    ELSE {<<1, 1>>}

\* the optional timestamp argument of sample
SampleTimestamps == {None, Some(0), Some(7)}

\* timestamp is read by Gauge.sample
SampleTimestampsOf(kind) ==
    IF kind \in {"Gauge", "BucketGauge"} THEN SampleTimestamps ELSE {None}

\* the timestamp argument of flush
FlushTimestamps == {10, 20}

\* the interval argument of flush, in seconds
Intervals == {1, 2}

\* the readings of time(), in ticks: 0s, 0.5s, 1s and 2.5s
Clock == {0, 1, 2, 5}

\* the reading of time() is used by Rate.sample; elsewhere it only goes to
\* last_sample_time, which no method reads
ClockOf(kind) == IF kind = "Rate" THEN Clock ELSE {0, 5}

\* (tags, hostname, device_name) given to the constructor
Identities ==
    {[tags |-> <<>>, hostname |-> None, device_name |-> None],
     [tags |-> <<"env:a">>, hostname |-> Some("host"), device_name |-> Some("dev")]}

DEFAULT_HISTOGRAM_AGGREGATES == <<"max", "median", "avg", "count">>

DEFAULT_HISTOGRAM_PERCENTILES == <<(<<19, 20>>)>>

\* extra_config given to the constructor
ExtraConfigs ==
    {None,
     [aggregates |-> <<"min", "sum", "count">>,
      percentiles |-> << <<1, 5>>, <<1, 2>>, <<1, 1>> >>]}

\* ----------------------------------------------------------------- state
VARIABLES
    self,       \* the accumulator's fields
    call,       \* the last call: its name, and the arguments of a flush
    ret,        \* what the last call returned if it was a flush, else <<>>
    raised,     \* the exception the last call let escape, or None
    pre,        \* the data, window, call.op and flushed before the last call
    window,     \* the (value, sample_rate) of each sample since the last flush
    flushed,    \* flush has been called
    readings,   \* Count, MonotonicCount: every value sampled so far, oldest first
    regular,    \* every flush so far closed a window of exactly one sample
    supplied,   \* the timestamp argument of the most recent sample, or None
    emitted     \* Count, MonotonicCount: the sum of the values emitted so far

vars == <<self, call, ret, raised, pre, window, flushed, readings, regular,
          supplied, emitted>>

\* the formatter, called with keyword arguments; device_name defaults to None
Formatter(metric, value, timestamp, tags, hostname, device_name, metric_type, interval) ==
    [metric |-> metric, value |-> value, timestamp |-> timestamp, tags |-> tags,
     hostname |-> hostname, device_name |-> device_name,
     metric_type |-> metric_type, interval |-> interval]

\* the fields every __init__ sets; a field the class does not have is None,
\* and a field that holds a number n holds Some(n)
Fields(kind, id) ==
    [kind |-> kind, formatter |-> "formatter", name |-> "m",
     tags |-> id.tags, hostname |-> id.hostname, device_name |-> id.device_name,
     value |-> None, timestamp |-> None, last_sample_time |-> None,
     prev_counter |-> None, curr_counter |-> None, count |-> None,
     samples |-> <<>>, values |-> {},
     aggregates |-> <<>>, percentiles |-> <<>>]

\* ----------------------------------------------------------------- Gauge
Gauge_init(kind, id, now) ==
    [Fields(kind, id) EXCEPT !.timestamp = Some(now)]

\* Gauge.sample keeping a value that is already set
Gauge_sample_keeps_first(s, value, sample_rate, timestamp, now) ==
    [s EXCEPT !.value = IF s.value = None THEN Some(value) ELSE s.value,
              !.last_sample_time = Some(now),
              !.timestamp = timestamp]

Gauge_sample(s, value, sample_rate, timestamp, now) ==
    [s EXCEPT !.value = Some(value), !.last_sample_time = Some(now),
              !.timestamp = timestamp]

\* Gauge.flush without `self.value = None`
Gauge_flush_keeps_value(s, timestamp, interval) ==
    IF s.value # None
    THEN [self |-> s,
          ret |-> <<Formatter(s.name, Num(Get(s.value)), Or(s.timestamp, timestamp),
                              s.tags, s.hostname, s.device_name, GAUGE, interval)>>,
          raised |-> None]
    ELSE [self |-> s, ret |-> <<>>, raised |-> None]

Gauge_flush(s, timestamp, interval) ==
    IF s.value # None
    THEN [self |-> [s EXCEPT !.value = None],
          ret |-> <<Formatter(s.name, Num(Get(s.value)), Or(s.timestamp, timestamp),
                              s.tags, s.hostname, s.device_name, GAUGE, interval)>>,
          raised |-> None]
    ELSE [self |-> s, ret |-> <<>>, raised |-> None]

BucketGauge_flush(s, timestamp, interval) ==
    IF s.value # None
    THEN [self |-> [s EXCEPT !.value = None],
          ret |-> <<Formatter(s.name, Num(Get(s.value)), timestamp,
                              s.tags, s.hostname, s.device_name, GAUGE, interval)>>,
          raised |-> None]
    ELSE [self |-> s, ret |-> <<>>, raised |-> None]

\* ----------------------------------------------------------------- Count
Count_init(kind, id) == Fields(kind, id)

Count_sample(s, value, sample_rate, timestamp, now) ==
    [s EXCEPT !.value = Some(Or(s.value, 0) + value), !.last_sample_time = Some(now)]

\* Count.flush emitting the sum per second of the interval
Count_flush_per_interval(s, timestamp, interval) ==
    IF s.value = None
    THEN [self |-> s, ret |-> <<>>, raised |-> None]
    ELSE [self |-> [s EXCEPT !.value = None],
          ret |-> <<Formatter(s.name, Div(Get(s.value), interval), timestamp,
                              s.tags, s.hostname, s.device_name, COUNT, interval)>>,
          raised |-> None]

Count_flush(s, timestamp, interval) ==
    IF s.value = None
    THEN [self |-> s, ret |-> <<>>, raised |-> None]
    ELSE [self |-> [s EXCEPT !.value = None],
          ret |-> <<Formatter(s.name, Num(Get(s.value)), timestamp,
                              s.tags, s.hostname, s.device_name, COUNT, interval)>>,
          raised |-> None]

\* -------------------------------------------------------- MonotonicCount
MonotonicCount_init(kind, id) == Fields(kind, id)

\* MonotonicCount.sample without the max(0, ...) clamp
MonotonicCount_sample_unclamped(s, value, sample_rate, timestamp, now) ==
    LET shifted ==
            IF s.curr_counter = None
            THEN [s EXCEPT !.curr_counter = Some(value)]
            ELSE [s EXCEPT !.prev_counter = s.curr_counter,
                           !.curr_counter = Some(value)]
        prev == shifted.prev_counter
        curr == shifted.curr_counter
        counted ==
            IF prev # None /\ curr # None
            THEN [shifted EXCEPT
                     !.count = Some(Or(s.count, 0) + (Get(curr) - Get(prev)))]
            ELSE shifted
    IN  [counted EXCEPT !.last_sample_time = Some(now)]

\* MonotonicCount.sample counting the first reading as an increase from 0
MonotonicCount_sample_counts_first(s, value, sample_rate, timestamp, now) ==
    LET shifted ==
            IF s.curr_counter = None
            THEN [s EXCEPT !.curr_counter = Some(value)]
            ELSE [s EXCEPT !.prev_counter = s.curr_counter,
                           !.curr_counter = Some(value)]
        prev == Or(shifted.prev_counter, 0)
        curr == shifted.curr_counter
    IN  [shifted EXCEPT
            !.count = Some(Or(s.count, 0) + Max(0, Get(curr) - prev)),
            !.last_sample_time = Some(now)]

MonotonicCount_sample(s, value, sample_rate, timestamp, now) ==
    LET shifted ==
            IF s.curr_counter = None
            THEN [s EXCEPT !.curr_counter = Some(value)]
            ELSE [s EXCEPT !.prev_counter = s.curr_counter,
                           !.curr_counter = Some(value)]
        prev == shifted.prev_counter
        curr == shifted.curr_counter
        counted ==
            IF prev # None /\ curr # None
            THEN [shifted EXCEPT
                     !.count = Some(Or(s.count, 0) + Max(0, Get(curr) - Get(prev)))]
            ELSE shifted
    IN  [counted EXCEPT !.last_sample_time = Some(now)]

\* MonotonicCount.flush with the early return inside the try: it rotates
\* the counters on every call
MonotonicCount_flush_always_rotates(s, timestamp, interval) ==
    [self |-> [s EXCEPT !.prev_counter = s.curr_counter,
                        !.curr_counter = None,
                        !.count = None],
     ret |-> IF s.count = None THEN <<>>
             ELSE <<Formatter(s.name, Num(Get(s.count)), timestamp,
                              s.tags, s.hostname, s.device_name, COUNT, interval)>>,
     raised |-> None]

\* MonotonicCount.flush that forgets the last reading
MonotonicCount_flush_drops_reading(s, timestamp, interval) ==
    IF s.count = None
    THEN [self |-> s, ret |-> <<>>, raised |-> None]
    ELSE [self |-> [s EXCEPT !.prev_counter = None,
                             !.curr_counter = None,
                             !.count = None],
          ret |-> <<Formatter(s.name, Num(Get(s.count)), timestamp,
                              s.tags, s.hostname, s.device_name, COUNT, interval)>>,
          raised |-> None]

\* the return on an unset count is before the try, so its finally does not run
MonotonicCount_flush(s, timestamp, interval) ==
    IF s.count = None
    THEN [self |-> s, ret |-> <<>>, raised |-> None]
    ELSE [self |-> [s EXCEPT !.prev_counter = s.curr_counter,
                             !.curr_counter = None,
                             !.count = None],
          ret |-> <<Formatter(s.name, Num(Get(s.count)), timestamp,
                              s.tags, s.hostname, s.device_name, COUNT, interval)>>,
          raised |-> None]

\* --------------------------------------------------------------- Counter
\* int(round(1 / sample_rate))
Multiplicity_rounded(sample_rate) ==
    LET x == Div(sample_rate[2], sample_rate[1])
        fl == x[1] \div x[2]
    IN  IF 2 * (x[1] - fl * x[2]) >= x[2] THEN fl + 1 ELSE fl

\* int(1 / sample_rate)
Multiplicity(sample_rate) == Trunc(Div(sample_rate[2], sample_rate[1]))

Counter_init(kind, id) == [Fields(kind, id) EXCEPT !.value = Some(0)]

Counter_sample(s, value, sample_rate, timestamp, now) ==
    [s EXCEPT !.value = Some(Get(s.value) + value * Multiplicity(sample_rate)),
              !.last_sample_time = Some(now)]

\* Counter.flush without the finally block: the value is not reset
Counter_flush_keeps_value(s, timestamp, interval) ==
    IF interval = 0
    THEN [self |-> s, ret |-> <<>>, raised |-> Some("ZeroDivisionError")]
    ELSE [self |-> s,
          ret |-> <<Formatter(s.name, Div(Get(s.value), interval), timestamp,
                              s.tags, s.hostname, s.device_name, RATE, interval)>>,
          raised |-> None]

Counter_flush(s, timestamp, interval) ==
    IF interval = 0
    THEN [self |-> [s EXCEPT !.value = Some(0)], ret |-> <<>>,
          raised |-> Some("ZeroDivisionError")]
    ELSE [self |-> [s EXCEPT !.value = Some(0)],
          ret |-> <<Formatter(s.name, Div(Get(s.value), interval), timestamp,
                              s.tags, s.hostname, s.device_name, RATE, interval)>>,
          raised |-> None]

\* ------------------------------------------------------------------- Set
Set_init(kind, id) == Fields(kind, id)

\* Set.sample adding to self.tags what belongs in self.values
Set_sample_into_tags(s, value, sample_rate, timestamp, now) ==
    [s EXCEPT !.tags = Append(s.tags, ToString(value)),
              !.values = s.values \cup {value},
              !.last_sample_time = Some(now)]

Set_sample(s, value, sample_rate, timestamp, now) ==
    [s EXCEPT !.values = s.values \cup {value}, !.last_sample_time = Some(now)]

\* Set.flush without `self.values = set()`
Set_flush_keeps_values(s, timestamp, interval) ==
    IF s.values = {}
    THEN [self |-> s, ret |-> <<>>, raised |-> None]
    ELSE [self |-> s,
          ret |-> <<Formatter(s.name, Num(Cardinality(s.values)), timestamp,
                              s.tags, s.hostname, s.device_name, GAUGE, interval)>>,
          raised |-> None]

Set_flush(s, timestamp, interval) ==
    IF s.values = {}
    THEN [self |-> s, ret |-> <<>>, raised |-> None]
    ELSE [self |-> [s EXCEPT !.values = {}],
          ret |-> <<Formatter(s.name, Num(Cardinality(s.values)), timestamp,
                              s.tags, s.hostname, s.device_name, GAUGE, interval)>>,
          raised |-> None]

\* ------------------------------------------------------------------ Rate
Rate_init(kind, id) == Fields(kind, id)

Rate_sample(s, value, sample_rate, timestamp, now) ==
    [s EXCEPT !.samples = Append(s.samples, <<IntSeconds(now), value>>),
              !.last_sample_time = Some(now)]

\* Rate._rate: the value, or the exception it raises
Rate_rate(sample1, sample2) ==
    LET interval == sample2[1] - sample1[1]
        delta == sample2[2] - sample1[2]
    IN  IF interval = 0 THEN [raised |-> Some("Infinity"), val |-> None]
        ELSE IF delta < 0 THEN [raised |-> Some("UnknownValue"), val |-> None]
        ELSE [raised |-> None, val |-> Div(delta, interval)]

\* self.samples[-1:]
LastOnly(samples) ==
    IF samples = <<>> THEN <<>> ELSE <<samples[Len(samples)]>>

\* Rate.flush without the finally block: the samples are never trimmed
Rate_flush_keeps_samples(s, timestamp, interval) ==
    IF Len(s.samples) < 2
    THEN [self |-> s, ret |-> <<>>, raised |-> None]
    ELSE LET n == Len(s.samples)
             r == Rate_rate(s.samples[n - 1], s.samples[n])
         IN  IF r.raised # None
             THEN [self |-> s, ret |-> <<>>, raised |-> None]
             ELSE [self |-> s,
                   ret |-> <<Formatter(s.name, r.val, timestamp,
                                       s.tags, s.hostname, s.device_name,
                                       GAUGE, interval)>>,
                   raised |-> None]

\* Rate.flush that trims the samples only when it emits a value
Rate_flush_trims_on_value(s, timestamp, interval) ==
    IF Len(s.samples) < 2
    THEN [self |-> s, ret |-> <<>>, raised |-> None]
    ELSE LET n == Len(s.samples)
             r == Rate_rate(s.samples[n - 1], s.samples[n])
             trimmed == [s EXCEPT !.samples = LastOnly(s.samples)]
         IN  IF r.raised # None
             THEN [self |-> s, ret |-> <<>>, raised |-> None]
             ELSE [self |-> trimmed,
                   ret |-> <<Formatter(s.name, r.val, timestamp,
                                       s.tags, s.hostname, s.device_name,
                                       GAUGE, interval)>>,
                   raised |-> None]

\* Rate.flush without `except Exception`: what _rate raises leaves flush
Rate_flush_lets_escape(s, timestamp, interval) ==
    IF Len(s.samples) < 2
    THEN [self |-> s, ret |-> <<>>, raised |-> None]
    ELSE LET n == Len(s.samples)
             r == Rate_rate(s.samples[n - 1], s.samples[n])
             trimmed == [s EXCEPT !.samples = LastOnly(s.samples)]
         IN  IF r.raised # None
             THEN [self |-> trimmed, ret |-> <<>>, raised |-> r.raised]
             ELSE [self |-> trimmed,
                   ret |-> <<Formatter(s.name, r.val, timestamp,
                                       s.tags, s.hostname, s.device_name,
                                       GAUGE, interval)>>,
                   raised |-> None]

\* Rate.flush that takes the rate over self.samples[0] and self.samples[-1]
Rate_flush_oldest_to_newest(s, timestamp, interval) ==
    IF Len(s.samples) < 2
    THEN [self |-> s, ret |-> <<>>, raised |-> None]
    ELSE LET n == Len(s.samples)
             r == Rate_rate(s.samples[1], s.samples[n])
             trimmed == [s EXCEPT !.samples = LastOnly(s.samples)]
         IN  IF r.raised # None
             THEN [self |-> trimmed, ret |-> <<>>, raised |-> None]
             ELSE [self |-> trimmed,
                   ret |-> <<Formatter(s.name, r.val, timestamp,
                                       s.tags, s.hostname, s.device_name,
                                       GAUGE, interval)>>,
                   raised |-> None]

Rate_flush(s, timestamp, interval) ==
    IF Len(s.samples) < 2
    THEN [self |-> s, ret |-> <<>>, raised |-> None]
    ELSE LET n == Len(s.samples)
             r == Rate_rate(s.samples[n - 1], s.samples[n])
             trimmed == [s EXCEPT !.samples = LastOnly(s.samples)]
         IN  IF r.raised # None
             THEN [self |-> trimmed, ret |-> <<>>, raised |-> None]
             ELSE [self |-> trimmed,
                   ret |-> <<Formatter(s.name, r.val, timestamp,
                                       s.tags, s.hostname, s.device_name,
                                       GAUGE, interval)>>,
                   raised |-> None]

\* ------------------------------------------------------------- Histogram
\* the interpreters the module runs under: they differ in int / int and in
\* how round() breaks a tie
Pythons == {2, 3}

\* round(x) of a fraction x
Round(x, py) ==
    LET fl == x[1] \div x[2]
        rem == x[1] - fl * x[2]
    IN  IF 2 * rem < x[2] THEN fl
        ELSE IF 2 * rem > x[2] THEN fl + 1
        ELSE IF py = 3 THEN (IF fl % 2 = 0 THEN fl ELSE fl + 1)
        ELSE (IF x[1] >= 0 THEN fl + 1 ELSE fl)

\* length/2 - 1 on an int length
HalfLessOne(length, py) ==
    IF py = 3 THEN Div(length - 2, 2) ELSE Num((length \div 2) - 1)

\* p * length - 1 on a float p
RankOf(p, length) == Div(p[1] * length - p[2], p[2])

\* seq[i] with Python's indexing: from 0, a negative i counts from the end
PyIndex(seq, i) == IF i >= 0 THEN seq[i + 1] ELSE seq[Len(seq) + i + 1]

RECURSIVE Insert(_, _)
Insert(sorted, v) ==
    IF sorted = <<>> THEN <<v>>
    ELSE IF v <= Head(sorted) THEN <<v>> \o sorted
    ELSE <<Head(sorted)>> \o Insert(Tail(sorted), v)

\* list.sort()
RECURSIVE Sort(_)
Sort(seq) == IF seq = <<>> THEN <<>> ELSE Insert(Sort(Tail(seq)), Head(seq))

RECURSIVE Sum(_)
Sum(seq) == IF seq = <<>> THEN 0 ELSE Head(seq) + Sum(Tail(seq))

Contains(seq, x) == \E i \in 1 .. Len(seq) : seq[i] = x

Histogram_init(kind, id, extra_config) ==
    [Fields(kind, id) EXCEPT
        !.count = Some(0),
        !.samples = <<>>,
        !.aggregates =
            IF extra_config # None /\ extra_config.aggregates # None
            THEN extra_config.aggregates ELSE DEFAULT_HISTOGRAM_AGGREGATES,
        !.percentiles =
            IF extra_config # None /\ extra_config.percentiles # None
            THEN extra_config.percentiles ELSE DEFAULT_HISTOGRAM_PERCENTILES]

Histogram_sample(s, value, sample_rate, timestamp, now) ==
    [s EXCEPT !.count = Some(Get(s.count) + Multiplicity(sample_rate)),
              !.samples = Append(s.samples, value),
              !.last_sample_time = Some(now)]

\* self.samples[int(round(length/2 - 1))] on the sorted samples
Median(sorted, py) ==
    PyIndex(sorted, Round(HalfLessOne(Len(sorted), py), py))

\* self.samples[int(round(p * length - 1))] on the sorted samples
Percentile(sorted, p, py) ==
    PyIndex(sorted, Round(RankOf(p, Len(sorted)), py))

\* aggregators with avg taken over the corrected count
Aggregators_avg_over_count(sorted, count, interval, py) ==
    LET length == Len(sorted)
        sum_ == Sum(sorted)
    IN  << <<"min", Num(sorted[1]), GAUGE>>,
           <<"max", Num(sorted[length]), GAUGE>>,
           <<"median", Num(PyIndex(sorted, Round(HalfLessOne(length, py), py))), GAUGE>>,
           <<"avg", Div(sum_, count), GAUGE>>,
           <<"sum", Num(sum_), GAUGE>>,
           <<"count", Div(count, interval), RATE>> >>

\* the list `aggregators`: (name, value, metric type)
Aggregators(sorted, count, interval, py) ==
    LET length == Len(sorted)
        min_ == sorted[1]
        max_ == sorted[length]
        med == Median(sorted, py)
        sum_ == Sum(sorted)
        avg == Div(sum_, length)
    IN  << <<"min", Num(min_), GAUGE>>,
           <<"max", Num(max_), GAUGE>>,
           <<"median", Num(med), GAUGE>>,
           <<"avg", avg, GAUGE>>,
           <<"sum", Num(sum_), GAUGE>>,
           <<"count", Div(count, interval), RATE>> >>

\* metric_aggrs without the filter on self.aggregates
MetricAggrs_unfiltered(aggregators, aggregates) == aggregators

\* the list `metric_aggrs`: the aggregators named in self.aggregates
MetricAggrs(aggregators, aggregates) ==
    LET Selected(a) == Contains(aggregates, a[1])
    IN  SelectSeq(aggregators, Selected)

Histogram_flush(s, ts, interval, py) ==
    IF Get(s.count) = 0
    THEN [self |-> s, ret |-> <<>>, raised |-> None]
    ELSE LET sorted == Sort(s.samples)
             aggregators == Aggregators(sorted, Get(s.count), interval, py)
             metric_aggrs == MetricAggrs(aggregators, s.aggregates)
             metrics ==
                 [i \in 1 .. Len(metric_aggrs) |->
                     Formatter(s.name \o "." \o metric_aggrs[i][1],
                               metric_aggrs[i][2], ts, s.tags, s.hostname,
                               s.device_name, metric_aggrs[i][3], interval)]
             percentiles ==
                 [i \in 1 .. Len(s.percentiles) |->
                     LET p == s.percentiles[i]
                         val == Percentile(sorted, p, py)
                         name == s.name \o "." \o ToString(Trunc(Div(p[1] * 100, p[2])))
                                        \o "percentile"
                     IN  Formatter(name, Num(val), ts, s.tags, s.hostname,
                                   None, GAUGE, interval)]
         IN  [self |-> [s EXCEPT !.samples = <<>>, !.count = Some(0)],
              ret |-> metrics \o percentiles,
              raised |-> None]

\* ------------------------------------------------------------- the calls
\* the data an accumulator gathers: its fields other than those set once
\* by __init__ and the write-only last_sample_time
Data(s) ==
    [value |-> s.value, timestamp |-> s.timestamp,
     prev_counter |-> s.prev_counter, curr_counter |-> s.curr_counter,
     count |-> s.count, samples |-> s.samples, values |-> s.values]

\* the accumulators a constructor can return; time() is read by Gauge.__init__
NewAccumulators ==
    {Gauge_init(kind, id, now) :
        kind \in {"Gauge", "BucketGauge"}, id \in Identities, now \in ClockOf("Gauge")}
    \cup {Count_init("Count", id) : id \in Identities}
    \cup {MonotonicCount_init("MonotonicCount", id) : id \in Identities}
    \cup {Counter_init("Counter", id) : id \in Identities}
    \cup {Histogram_init("Histogram", id, extra_config) :
            id \in Identities, extra_config \in ExtraConfigs}
    \cup {Set_init("Set", id) : id \in Identities}
    \cup {Rate_init("Rate", id) : id \in Identities}

Init ==
    /\ self \in NewAccumulators
    /\ call = [op |-> "new", timestamp |-> None, interval |-> None]
    /\ ret = <<>>
    /\ raised = None
    /\ pre = [self |-> Data(self), window |-> <<>>, op |-> "new", flushed |-> FALSE]
    /\ window = <<>>
    /\ flushed = FALSE
    /\ readings = <<>>
    /\ regular = TRUE
    /\ supplied = None
    /\ emitted = 0

\* the classes whose records carry sums of what was sampled
Summed == {"Count", "MonotonicCount"}

\* a call of sample that leaves the accumulator as `next`
Sampled(next, value, sample_rate, timestamp, now) ==
    /\ Len(window) < MaxWindow
    /\ self.kind \in Summed => Len(readings) < MaxReadings
    /\ self' = next
    /\ call' = [op |-> "sample", timestamp |-> None, interval |-> None]
    /\ ret' = <<>>
    /\ raised' = None
    /\ pre' = [self |-> Data(self), window |-> window, op |-> call.op,
               flushed |-> flushed]
    /\ window' = Append(window, [value |-> value, sample_rate |-> sample_rate])
    /\ readings' = IF self.kind \in Summed
                   THEN Append(readings, value) ELSE readings
    /\ supplied' = timestamp
    /\ UNCHANGED <<flushed, regular, emitted>>

\* a call of flush with the outcome `result`
Flushed(result, timestamp, interval) ==
    /\ self' = result.self
    /\ call' = [op |-> "flush", timestamp |-> Some(timestamp),
                interval |-> Some(interval)]
    /\ ret' = result.ret
    /\ raised' = result.raised
    /\ pre' = [self |-> Data(self), window |-> window, op |-> call.op,
               flushed |-> flushed]
    /\ window' = <<>>
    /\ flushed' = TRUE
    /\ regular' = (regular /\ Len(window) = 1)
    /\ emitted' = IF self.kind \in Summed
                  THEN emitted + Sum([i \in 1 .. Len(result.ret) |->
                                         result.ret[i].value[1]])
                  ELSE emitted
    /\ UNCHANGED <<readings, supplied>>

GaugeSample ==
    /\ self.kind \in {"Gauge", "BucketGauge"}
    /\ \E value \in Values, sample_rate \in SampleRatesOf(self.kind),
          timestamp \in SampleTimestampsOf(self.kind), now \in ClockOf(self.kind) :
          Sampled(Gauge_sample(self, value, sample_rate, timestamp, now),
                  value, sample_rate, timestamp, now)

GaugeFlush ==
    /\ self.kind = "Gauge"
    /\ \E timestamp \in FlushTimestamps, interval \in Intervals :
          Flushed(Gauge_flush(self, timestamp, interval),
                  timestamp, interval)

BucketGaugeFlush ==
    /\ self.kind = "BucketGauge"
    /\ \E timestamp \in FlushTimestamps, interval \in Intervals :
          Flushed(BucketGauge_flush(self, timestamp, interval),
                  timestamp, interval)

CountSample ==
    /\ self.kind = "Count"
    /\ \E value \in Values, sample_rate \in SampleRatesOf(self.kind),
          timestamp \in SampleTimestampsOf(self.kind), now \in ClockOf(self.kind) :
          Sampled(Count_sample(self, value, sample_rate, timestamp, now),
                  value, sample_rate, timestamp, now)

CountFlush ==
    /\ self.kind = "Count"
    /\ \E timestamp \in FlushTimestamps, interval \in Intervals :
          Flushed(Count_flush(self, timestamp, interval),
                  timestamp, interval)

MonotonicCountSample ==
    /\ self.kind = "MonotonicCount"
    /\ \E value \in Values, sample_rate \in SampleRatesOf(self.kind),
          timestamp \in SampleTimestampsOf(self.kind), now \in ClockOf(self.kind) :
          Sampled(MonotonicCount_sample(self, value, sample_rate, timestamp, now),
                  value, sample_rate, timestamp, now)

MonotonicCountFlush ==
    /\ self.kind = "MonotonicCount"
    /\ \E timestamp \in FlushTimestamps, interval \in Intervals :
          Flushed(MonotonicCount_flush(self, timestamp, interval),
                  timestamp, interval)

CounterSample ==
    /\ self.kind = "Counter"
    /\ \E value \in Values, sample_rate \in SampleRatesOf(self.kind),
          timestamp \in SampleTimestampsOf(self.kind), now \in ClockOf(self.kind) :
          Sampled(Counter_sample(self, value, sample_rate, timestamp, now),
                  value, sample_rate, timestamp, now)

CounterFlush ==
    /\ self.kind = "Counter"
    /\ \E timestamp \in FlushTimestamps, interval \in Intervals :
          Flushed(Counter_flush(self, timestamp, interval),
                  timestamp, interval)

HistogramSample ==
    /\ self.kind = "Histogram"
    /\ \E value \in Values, sample_rate \in SampleRatesOf(self.kind),
          timestamp \in SampleTimestampsOf(self.kind), now \in ClockOf(self.kind) :
          Sampled(Histogram_sample(self, value, sample_rate, timestamp, now),
                  value, sample_rate, timestamp, now)

HistogramFlush ==
    /\ self.kind = "Histogram"
    /\ \E ts \in FlushTimestamps, interval \in Intervals, py \in Pythons :
          Flushed(Histogram_flush(self, ts, interval, py),
                  ts, interval)

SetSample ==
    /\ self.kind = "Set"
    /\ \E value \in Values, sample_rate \in SampleRatesOf(self.kind),
          timestamp \in SampleTimestampsOf(self.kind), now \in ClockOf(self.kind) :
          Sampled(Set_sample(self, value, sample_rate, timestamp, now),
                  value, sample_rate, timestamp, now)

SetFlush ==
    /\ self.kind = "Set"
    /\ \E timestamp \in FlushTimestamps, interval \in Intervals :
          Flushed(Set_flush(self, timestamp, interval),
                  timestamp, interval)

RateSample ==
    /\ self.kind = "Rate"
    /\ \E value \in Values, sample_rate \in SampleRatesOf(self.kind),
          timestamp \in SampleTimestampsOf(self.kind), now \in ClockOf(self.kind) :
          Sampled(Rate_sample(self, value, sample_rate, timestamp, now),
                  value, sample_rate, timestamp, now)

RateFlush ==
    /\ self.kind = "Rate"
    /\ \E timestamp \in FlushTimestamps, interval \in Intervals :
          Flushed(Rate_flush(self, timestamp, interval),
                  timestamp, interval)

Next ==
    \/ GaugeSample
    \/ GaugeFlush
    \/ BucketGaugeFlush
    \/ CountSample
    \/ CountFlush
    \/ MonotonicCountSample
    \/ MonotonicCountFlush
    \/ CounterSample
    \/ CounterFlush
    \/ HistogramSample
    \/ HistogramFlush
    \/ SetSample
    \/ SetFlush
    \/ RateSample
    \/ RateFlush

Spec == Init /\ [][Next]_vars

\* ------------------------------------------------------------ properties
AfterSample == call.op = "sample"

AfterFlush == call.op = "flush"

\* the last two calls were both flush
AfterSecondFlush == call.op = "flush" /\ pre.op = "flush"

Is(kind) == self.kind = kind

\* ret is one record of the given kind
OneRecord(metric_type) == Len(ret) = 1 /\ ret[1].metric_type = metric_type

\* C1 as stated: for every variant, a flush that directly follows a flush
\* returns an empty sequence.
C1_SecondFlushEmpty == AfterSecondFlush => ret = <<>>

\* C1 amended: a flush that directly follows a flush returns an empty
\* sequence for every variant but Counter; Counter.flush returns one RATE
\* record with value 0.
C1_SecondFlushEmptyButCounter ==
    AfterSecondFlush =>
        IF Is("Counter")
        THEN OneRecord(RATE) /\ ret[1].value = Num(0)
        ELSE ret = <<>>

\* a Gauge flushed twice in a row after a sample
C1_Witness ==
    /\ AfterSecondFlush
    /\ Is("Gauge")
    /\ self.last_sample_time # None

\* C2 as stated: after every MonotonicCount.flush prev_counter is the
\* curr_counter of before the flush, and curr_counter and count are unset.
C2_FlushAlwaysRotates ==
    (Is("MonotonicCount") /\ AfterFlush) =>
        /\ self.prev_counter = pre.self.curr_counter
        /\ self.curr_counter = None
        /\ self.count = None

\* C2 amended: MonotonicCount.flush carries state forward exactly when it
\* emits a record, that is when count is set: then prev_counter is the
\* curr_counter of before the flush and curr_counter and count are unset.
\* When count is unset it returns an empty sequence and leaves prev_counter,
\* curr_counter and count as they were.
C2_FlushRotatesWhenItEmits ==
    (Is("MonotonicCount") /\ AfterFlush) =>
        IF pre.self.count # None
        THEN /\ OneRecord(COUNT)
             /\ self.prev_counter = pre.self.curr_counter
             /\ self.curr_counter = None
             /\ self.count = None
        ELSE /\ ret = <<>>
             /\ Data(self) = pre.self

\* a flush on an unset count with a reading in curr_counter
C2_Witness ==
    /\ Is("MonotonicCount")
    /\ AfterFlush
    /\ pre.self.count = None
    /\ pre.self.curr_counter # None
    /\ self.curr_counter # None

\* C3: a MonotonicCount sampled exactly once per window emits nothing at
\* its first flush, and at its k-th flush (k >= 2) one COUNT record with
\* value max(0, v_k - v_(k-1)).
C3_OncePerWindowDelta ==
    (Is("MonotonicCount") /\ AfterFlush /\ regular) =>
        LET k == Len(readings)
        IN  IF k = 1
            THEN ret = <<>>
            ELSE /\ OneRecord(COUNT)
                 /\ ret[1].value = Num(Max(0, readings[k] - readings[k - 1]))

\* the third flush of sample(0); flush; sample(1); flush; sample(2); flush
C3_Witness ==
    /\ Is("MonotonicCount")
    /\ AfterFlush
    /\ regular
    /\ readings = <<0, 1, 2>>
    /\ OneRecord(COUNT)
    /\ ret[1].value = Num(1)


\* the samples a Rate held when its flush was called, and the two most
\* recently recorded of them
Held == pre.self.samples

Older == Held[Len(Held) - 1]

Newer == Held[Len(Held)]

\* C4 as stated: when exactly one sample was recorded between two flushes
\* of a Rate, the second flush emits nothing.
C4_OneNewSampleEmitsNothing ==
    (Is("Rate") /\ AfterFlush /\ pre.flushed /\ Len(pre.window) = 1) =>
        ret = <<>>

\* C4 amended: after a Rate.flush the next Rate.flush can produce a value
\* only if at least 1 new sample was recorded in between: with no new
\* sample the second flush emits nothing.  One new sample is enough when
\* the accumulator retained a sample: the flush then emits a record if the
\* two timestamps differ and the new value is not lower.
C4_NextFlushNeedsOneNewSample ==
    (Is("Rate") /\ AfterFlush /\ pre.flushed) =>
        /\ pre.window = <<>> => ret = <<>>
        /\ (Len(pre.window) = 1 /\ Len(Held) = 2
                /\ Newer[1] # Older[1] /\ Newer[2] >= Older[2])
              => OneRecord(GAUGE)

\* a flush, one sample, and a flush that emits a record
C4_Witness ==
    /\ Is("Rate")
    /\ AfterFlush
    /\ pre.flushed
    /\ Len(pre.window) = 1
    /\ OneRecord(GAUGE)

\* C5: after every Rate.flush the accumulator holds at most one sample;
\* when it held one or more before the flush, it holds the most recently
\* recorded one; with fewer than 2 samples the flush changes nothing.
C5_FlushRetainsNewestSample ==
    (Is("Rate") /\ AfterFlush) =>
        /\ Len(self.samples) <= 1
        /\ Held # <<>> => self.samples = <<Newer>>
        /\ pre.window # <<>> =>
              self.samples[1][2] = pre.window[Len(pre.window)].value
        /\ Len(Held) < 2 => self.samples = Held

\* a flush of three samples, the last two at the same second, emits
\* nothing and keeps the last
C5_Witness ==
    /\ Is("Rate")
    /\ AfterFlush
    /\ Len(Held) = 3
    /\ Newer[1] = Older[1]
    /\ ret = <<>>
    /\ self.samples = <<Newer>>

\* C6: when the two most recent samples of a Rate have equal timestamps,
\* or the most recent value is the lower one, flush raises nothing and
\* returns an empty sequence.
C6_SuppressionStaysInsideFlush ==
    (Is("Rate") /\ AfterFlush /\ Len(Held) >= 2
        /\ (Newer[1] = Older[1] \/ Newer[2] < Older[2])) =>
        /\ raised = None
        /\ ret = <<>>

\* a flush whose most recent value is lower, at a later second
C6_Witness ==
    /\ Is("Rate")
    /\ AfterFlush
    /\ Len(Held) >= 2
    /\ Newer[1] > Older[1]
    /\ Newer[2] < Older[2]
    /\ raised = None

\* C7: when the two most recently recorded samples (t1,v1), (t2,v2) of a
\* Rate have t2 # t1 and v2 >= v1, flush emits one GAUGE record whose
\* value is (v2-v1)/(t2-t1), whatever was recorded before them.
C7_RateOfTwoNewestSamples ==
    (Is("Rate") /\ AfterFlush /\ Len(Held) >= 2
        /\ Newer[1] # Older[1] /\ Newer[2] >= Older[2]) =>
        /\ OneRecord(GAUGE)
        /\ ret[1].value[2] > 0
        /\ ret[1].value[1] * (Newer[1] - Older[1])
              = (Newer[2] - Older[2]) * ret[1].value[2]

\* samples (0s,2), (0s,0), (2s,1): the flush emits 1/2, not (1-2)/(2-0)
C7_Witness ==
    /\ Is("Rate")
    /\ AfterFlush
    /\ Held = << <<0, 2>>, <<0, 0>>, <<2, 1>> >>
    /\ OneRecord(GAUGE)
    /\ ret[1].value = <<1, 2>>


\* the last sample call
LastSample == window[Len(window)]

\* C8: a MonotonicCount never reports a negative count: each pair of
\* consecutive readings adds max(0, curr - prev) to count, and a flush on
\* a set count, 0 included, emits one COUNT record with that count.
C8_CountNeverNegative ==
    Is("MonotonicCount") =>
        /\ self.count # None => Get(self.count) >= 0
        /\ \A i \in 1 .. Len(ret) : ret[i].value[1] >= 0
        /\ (AfterSample /\ Len(readings) >= 2) =>
              LET k == Len(readings)
              IN  self.count = Some(Or(pre.self.count, 0)
                                    + Max(0, readings[k] - readings[k - 1]))
        /\ (AfterFlush /\ pre.self.count # None) =>
              /\ OneRecord(COUNT)
              /\ ret[1].value = Num(Get(pre.self.count))

\* sample(2); sample(1); flush emits one COUNT record with value 0
C8_Witness ==
    /\ Is("MonotonicCount")
    /\ AfterFlush
    /\ readings = <<2, 1>>
    /\ pre.window = <<[value |-> 2, sample_rate |-> <<1, 1>>],
                      [value |-> 1, sample_rate |-> <<1, 1>>]>>
    /\ OneRecord(COUNT)
    /\ ret[1].value = Num(0)

\* the sum over a window of value * int(1 / sample_rate)
RECURSIVE CorrectedSum(_)
CorrectedSum(w) ==
    IF w = <<>> THEN 0
    ELSE Head(w).value * Multiplicity(Head(w).sample_rate) + CorrectedSum(Tail(w))

\* C9: every Counter.flush (interval > 0) emits one RATE record whose value
\* is the sum of the corrected values sampled since the previous flush,
\* divided by interval, and leaves the accumulated value at 0.
C9_CounterRate ==
    (Is("Counter") /\ AfterFlush) =>
        /\ OneRecord(RATE)
        /\ ret[1].value[2] > 0
        /\ ret[1].value[1] * Get(call.interval)
              = CorrectedSum(pre.window) * ret[1].value[2]
        /\ self.value = Some(0)

\* sample(1); sample(2); flush(interval=2) emits 3/2
C9_Witness ==
    /\ Is("Counter")
    /\ AfterFlush
    /\ pre.flushed
    /\ Len(pre.window) = 2
    /\ call.interval = Some(2)
    /\ OneRecord(RATE)
    /\ ret[1].value = <<3, 2>>

\* k is 1 / sample_rate rounded to the nearest integer
IsRounded(k, sample_rate) ==
    LET d == k * sample_rate[1] - sample_rate[2]
    IN  2 * Abs(d) <= sample_rate[1]

\* k is 1 / sample_rate truncated to an integer
IsTruncated(k, sample_rate) ==
    /\ k * sample_rate[1] <= sample_rate[2]
    /\ (k + 1) * sample_rate[1] > sample_rate[2]

\* what the last sample added to Counter.value and to Histogram.count
AddedToValue == Get(self.value) - Get(pre.self.value)

AddedToCount == Get(self.count) - Get(pre.self.count)

\* C10 as stated: Counter.sample adds v * round(1/sampleRate) to its value
\* and Histogram.sample adds round(1/sampleRate) to its count.
C10_MultiplicityIsRounded ==
    AfterSample =>
        /\ Is("Counter") =>
              \E k \in 0 .. LastSample.sample_rate[2] :
                  /\ IsRounded(k, LastSample.sample_rate)
                  /\ AddedToValue = LastSample.value * k
        /\ Is("Histogram") =>
              \E k \in 0 .. LastSample.sample_rate[2] :
                  /\ IsRounded(k, LastSample.sample_rate)
                  /\ AddedToCount = k

\* C10 amended: the correction is int(1/sampleRate), 1/sampleRate truncated
\* to an integer, for every sampleRate in (0,1]: Counter.sample adds
\* v * int(1/sampleRate) to its value and Histogram.sample adds
\* int(1/sampleRate) to its count; sampleRate = 0.6 counts as 1 event.
C10_MultiplicityIsTruncated ==
    AfterSample =>
        /\ Is("Counter") =>
              \E k \in 0 .. LastSample.sample_rate[2] :
                  /\ IsTruncated(k, LastSample.sample_rate)
                  /\ AddedToValue = LastSample.value * k
        /\ Is("Histogram") =>
              \E k \in 0 .. LastSample.sample_rate[2] :
                  /\ IsTruncated(k, LastSample.sample_rate)
                  /\ AddedToCount = k

\* a Histogram sampled at rate 3/5 counts one event
C10_Witness ==
    /\ Is("Histogram")
    /\ AfterSample
    /\ LastSample.sample_rate = <<3, 5>>
    /\ AddedToCount = 1


\* ---- Histogram
\* the samples a Histogram held when its flush was called, ascending
Stored == Sort([i \in 1 .. Len(pre.window) |-> pre.window[i].value])

\* the records of the last flush that follow the aggregates: one for each
\* configured percentile, in the configured order
PercentileRecord(i) == ret[Len(ret) - Len(self.percentiles) + i]

\* the integer idx is x rounded to the nearest integer, a tie going either way
IsNearest(idx, x) == 2 * Abs(idx * x[2] - x[1]) <= x[2]

\* a Histogram flush that found samples
AfterHistogramFlush ==
    Is("Histogram") /\ AfterFlush /\ pre.window # <<>>

\* C11: for every configured percentile p and n >= 1 stored samples,
\* Histogram.flush emits the sorted sample at index round(p*n - 1), that
\* index is in 0..n-1, and the emitted percentile values do not decrease
\* when p grows.
C11_PercentileIsValidRank ==
    AfterHistogramFlush =>
        LET n == Len(Stored)
            ps == self.percentiles
        IN  /\ \A i \in 1 .. Len(ps) :
                  \E idx \in 0 .. n - 1 :
                      /\ IsNearest(idx, RankOf(ps[i], n))
                      /\ PercentileRecord(i).value = Num(Stored[idx + 1])
            /\ \A i, j \in 1 .. Len(ps) :
                  (ps[i][1] * ps[j][2] <= ps[j][1] * ps[i][2]) =>
                      PercentileRecord(i).value[1] <= PercentileRecord(j).value[1]


\* the names of the list `aggregators`
AggregateNames == {"min", "max", "median", "avg", "sum", "count"}

\* the positions in the last flush's result of the records named metric
RecordsNamed(metric) == {i \in 1 .. Len(ret) : ret[i].metric = metric}

\* '%s.%spercentile' % (self.name, int(p * 100))
PercentileName(p) ==
    self.name \o "." \o ToString(Trunc(Div(p[1] * 100, p[2]))) \o "percentile"

\* C12: a Histogram flush with count > 0 emits exactly one record for each
\* configured aggregate, named <metric>.<aggregate>, and one for each
\* configured percentile; the count record is a RATE and every other one a
\* GAUGE; an aggregate that is not configured is not emitted; with
\* count = 0 the flush emits nothing; after an emitting flush samples is
\* empty and count is 0.
C12_HistogramRecords ==
    (Is("Histogram") /\ AfterFlush) =>
        IF Get(pre.self.count) = 0
        THEN ret = <<>>
        ELSE /\ Len(ret) = Len(self.aggregates) + Len(self.percentiles)
             /\ \A a \in AggregateNames :
                    LET named == RecordsNamed(self.name \o "." \o a)
                    IN  IF Contains(self.aggregates, a)
                        THEN /\ Cardinality(named) = 1
                             /\ \A i \in named :
                                    ret[i].metric_type =
                                        IF a = "count" THEN RATE ELSE GAUGE
                        ELSE named = {}
             /\ \A i \in 1 .. Len(self.percentiles) :
                    LET named == RecordsNamed(PercentileName(self.percentiles[i]))
                    IN  /\ Cardinality(named) = 1
                        /\ \A j \in named : ret[j].metric_type = GAUGE
             /\ self.samples = <<>>
             /\ self.count = Some(0)

\* a flush of a Histogram with the default configuration that held samples:
\* it emits max, median, avg, count and the 95th percentile, not min or sum
C12_Witness ==
    /\ AfterHistogramFlush
    /\ self.aggregates = DEFAULT_HISTOGRAM_AGGREGATES
    /\ Len(pre.window) = 2
    /\ Len(ret) = 5
    /\ RecordsNamed("m.min") = {}
    /\ RecordsNamed("m.count") # {}


\* the sum over a window of int(1 / sample_rate)
RECURSIVE CorrectedCount(_)
CorrectedCount(w) ==
    IF w = <<>> THEN 0
    ELSE Multiplicity(Head(w).sample_rate) + CorrectedCount(Tail(w))

\* the value of the record the last flush emitted for aggregate a
ValueOf(a) ==
    LET i == CHOOSE i \in RecordsNamed(self.name \o "." \o a) : TRUE
    IN  ret[i].value

\* the configured aggregate a carries the fraction num / den
Emits(a, num, den) ==
    Contains(self.aggregates, a) =>
        /\ ValueOf(a)[2] > 0
        /\ ValueOf(a)[1] * den = num * ValueOf(a)[2]

\* the values of a list of (name, value, metric type), by name
ValuesByName(aggregators) ==
    {<<aggregators[i][1], aggregators[i][2]>> : i \in 1 .. Len(aggregators)}

\* C13: for a window of n >= 1 stored samples Histogram.flush emits
\* min = the least sample, max = the greatest, median = the sorted sample at
\* index round(n/2 - 1), sum = the sum of the stored samples, avg = sum / n
\* with n the number of stored samples, and count = the corrected count
\* divided by interval; samples 5, 1, 9, 3 with interval 1 give max 9,
\* median 3, avg 4.5 and count 4.
C13_HistogramValues ==
    /\ AfterHistogramFlush =>
          LET n == Len(Stored)
          IN  /\ Emits("min", Stored[1], 1)
              /\ \A i \in 1 .. n : Stored[1] <= Stored[i] /\ Stored[i] <= Stored[n]
              /\ Emits("max", Stored[n], 1)
              /\ \E idx \in 0 .. n - 1 :
                     /\ IsNearest(idx, Div(n - 2, 2))
                     /\ Emits("median", Stored[idx + 1], 1)
              /\ Emits("sum", Sum([i \in 1 .. Len(pre.window) |-> pre.window[i].value]), 1)
              /\ Emits("avg", Sum(Stored), n)
              /\ Emits("count", CorrectedCount(pre.window), Get(call.interval))
    /\ \A py \in Pythons :
          {<<"max", Num(9)>>, <<"median", Num(3)>>, <<"avg", <<9, 2>> >>, <<"count", Num(4)>>}
              \subseteq ValuesByName(Aggregators(Sort(<<5, 1, 9, 3>>), 4, 1, py))

\* a flush of two stored samples, one of them sampled at rate 1/2: the
\* corrected count is 3 and avg is taken over 2
C13_Witness ==
    /\ AfterHistogramFlush
    /\ Len(pre.window) = 2
    /\ CorrectedCount(pre.window) = 3
    /\ Stored = <<1, 2>>
    /\ Get(call.interval) = 2
    /\ Contains(self.aggregates, "avg") /\ ValueOf("avg") = <<3, 2>>
    /\ Contains(self.aggregates, "count") /\ ValueOf("count") = <<3, 2>>
    /\ Contains(self.aggregates, "median") /\ ValueOf("median") = Num(1)


\* ---- every class
\* the eight fields of a formatted record
RecordFields ==
    {"metric", "value", "timestamp", "tags", "hostname", "device_name",
     "metric_type", "interval"}

\* C14: every record a flush of any class emits comes from a formatter call
\* given the eight fields metric, value, timestamp, tags, hostname,
\* device_name, metric_type and interval, with tags, hostname and
\* device_name equal to the accumulator's own, the percentile records of a
\* Histogram included.
C14_RecordsCarryIdentity ==
    AfterFlush =>
        \A i \in 1 .. Len(ret) :
            /\ DOMAIN ret[i] = RecordFields
            /\ ret[i].tags = self.tags
            /\ ret[i].hostname = self.hostname
            /\ ret[i].device_name = self.device_name


\* ---- Gauge
\* C15: a Gauge.flush that follows one or more samples since the previous
\* flush emits exactly one GAUGE record carrying the value of the most
\* recent sample, whatever the earlier samples and the sample rates were,
\* and clears the value; a flush of a window without a sample emits nothing.
C15_GaugeLastWriteWins ==
    (Is("Gauge") /\ AfterFlush) =>
        IF pre.window # <<>>
        THEN /\ OneRecord(GAUGE)
             /\ ret[1].value = Num(pre.window[Len(pre.window)].value)
             /\ self.value = None
        ELSE ret = <<>>

\* samples 2 then 1, at different rates, then a flush that emits 1
C15_Witness ==
    /\ Is("Gauge") /\ AfterFlush
    /\ Len(pre.window) = 2
    /\ pre.window[1].value = 2 /\ pre.window[1].sample_rate = <<1, 1>>
    /\ pre.window[2].value = 1 /\ pre.window[2].sample_rate = <<1, 2>>
    /\ OneRecord(GAUGE)
    /\ ret[1].value = Num(1)


\* C16: the record of a Gauge.flush carries the timestamp supplied with the
\* most recent sample when that sample supplied one, and the timestamp of
\* the flush otherwise; the record of a BucketGauge.flush carries the
\* timestamp of the flush whatever the samples supplied.
C16_TimestampAttribution ==
    (AfterFlush /\ ret # <<>>) =>
        /\ Is("Gauge") =>
              ret[1].timestamp =
                  IF supplied # None THEN Get(supplied) ELSE Get(call.timestamp)
        /\ Is("BucketGauge") =>
              ret[1].timestamp = Get(call.timestamp)


\* ---- Count
\* the values of a window, oldest first
ValuesIn(w) == [i \in 1 .. Len(w) |-> w[i].value]

\* C17: a Count.flush that follows samples emits exactly one COUNT record
\* whose value is the sum of the values sampled since the previous flush,
\* not divided by interval and emitted also when it is 0; a flush that
\* follows no sample emits nothing; the flush leaves the value unset; and
\* the values emitted so far add up to the values sampled before the last
\* flush.
C17_CountRawSum ==
    Is("Count") =>
        /\ AfterFlush =>
              /\ IF pre.window # <<>>
                 THEN /\ OneRecord(COUNT)
                      /\ ret[1].value = Num(Sum(ValuesIn(pre.window)))
                 ELSE ret = <<>>
              /\ self.value = None
        /\ emitted + Sum(ValuesIn(window)) = Sum(readings)

\* the second emitting flush of a Count, over an interval of 2 seconds
C17_Witness ==
    /\ Is("Count") /\ AfterFlush
    /\ Len(readings) = 4
    /\ Len(pre.window) = 2
    /\ Get(call.interval) = 2
    /\ OneRecord(COUNT)
    /\ ret[1].value = Num(3)
    /\ emitted = 5


\* ---- Set
\* the distinct values of a window
Distinct(w) == {w[i].value : i \in 1 .. Len(w)}

\* C18: a Set.flush that follows samples emits exactly one GAUGE record
\* whose value is the number of distinct values sampled since the previous
\* flush, a repeated value counting once and the values of earlier windows
\* not at all; a flush that follows no sample emits nothing; the flush
\* leaves the set empty.
C18_SetCardinality ==
    (Is("Set") /\ AfterFlush) =>
        /\ IF pre.window # <<>>
           THEN /\ OneRecord(GAUGE)
                /\ ret[1].value = Num(Cardinality(Distinct(pre.window)))
           ELSE ret = <<>>
        /\ self.values = {}

\* a later window in which the same value was sampled twice
C18_Witness ==
    /\ Is("Set") /\ AfterFlush
    /\ pre.flushed
    /\ Len(pre.window) = 2
    /\ Distinct(pre.window) = {1}
    /\ OneRecord(GAUGE)
    /\ ret[1].value = Num(1)


\* ---- every class
\* the fields that identify and configure an accumulator
Identity(s) ==
    [kind |-> s.kind, formatter |-> s.formatter, name |-> s.name,
     tags |-> s.tags, hostname |-> s.hostname, device_name |-> s.device_name,
     aggregates |-> s.aggregates, percentiles |-> s.percentiles]

\* C19: no sample and no flush of any class changes name, tags, hostname,
\* device name, formatter or, for a Histogram, aggregates and percentiles:
\* each call leaves them as it found them, so that they stay as the
\* constructor set them.
C19_IdentityUnchanged == [][Identity(self') = Identity(self)]_vars

\* a configured Histogram with tags, hostname and device name that has been
\* sampled, flushed with records, and flushed again
C19_Witness ==
    /\ Is("Histogram") /\ AfterSecondFlush
    /\ self.last_sample_time # None
    /\ ret = <<>>
    /\ self.tags = <<"env:a">>
    /\ self.hostname = Some("host")
    /\ self.device_name = Some("dev")
    /\ self.aggregates = <<"min", "sum", "count">>
    /\ Len(self.percentiles) = 3


\* ---- MonotonicCount
\* the sum over i in 2..Len(r) of max(0, r[i] - r[i-1])
RECURSIVE Increases(_)
Increases(r) ==
    IF Len(r) < 2 THEN 0
    ELSE Max(0, r[2] - r[1]) + Increases(Tail(r))

\* C20: under every interleaving of MonotonicCount.sample and
\* MonotonicCount.flush, windows without samples and consecutive flushes
\* included, the values of the records emitted so far plus the pending count
\* equal the sum over the consecutive pairs of sampled readings of
\* max(0, r_i - r_(i-1)): each pair is counted exactly once.
C20_MonotonicCountConserves ==
    Is("MonotonicCount") =>
        emitted + Or(self.count, 0) = Increases(readings)

\* four readings with a decrease among them, flushed after the second and
\* the fourth, then flushed once more
C20_Witness ==
    /\ Is("MonotonicCount") /\ AfterSecondFlush
    /\ readings = <<0, 2, 1, 2>>
    /\ emitted = 3
    /\ ret = <<>>

====
